---------------------------- MODULE Spec2Model ----------------------------
(***************************************************************************)
(* jsoncache.loader: ThreadedObjectCache, a self-refreshing cache of one   *)
(* object in S3 / GCS.  Three daemon threads (refresh_thread,              *)
(* result_thread, _dequeue_result) communicate through two bounded queues  *)
(* and publish into the slot _cached_result, which get() reads.            *)
(*                                                                         *)
(* Python names that start with an underscore are written without it:      *)
(*   _cached_result -> cached_result, _stop -> stop_flag,                  *)
(*   _refresh_queue -> refresh_queue, _result_queue -> result_queue,       *)
(*   Timer._start -> timer_start, Timer._ttl_incr -> ttl_incr.             *)
(***************************************************************************)
EXTENDS Integers, Sequences, FiniteSets, TLC

(***************************************************************************)
(* Bounds of the model                                                     *)
(***************************************************************************)
\* largest value of the injected clock
MaxNow == 3
\* number of versions of the stored object the backend goes through
MaxVersion == 2
\* cap on Timer._ttl_incr (it is unbounded in the code when ttl = 0)
MaxIncr == 11
\* longest bucket / path string drawn for the constructor's validation
MaxLen == 3
\* largest clock value a Timer polled on its own is given
MaxClock == 6

(***************************************************************************)
(* Program constants                                                       *)
(***************************************************************************)
\* queue.Queue(10), both queues
QueueSize == 10

(***************************************************************************)
(* Python values.  Every value is a record [tag, n, z]:                    *)
(*   None, False, True                                                     *)
(*   dict  : the decoded JSON object {"foo": n}                            *)
(*   json  : bytes, the UTF-8 JSON text of document n under z bz2 layers   *)
(*   raw   : bytes that are not JSON text, under z bz2 layers              *)
(*   raise : an exception escaping the call (not a value; call outcome)    *)
(***************************************************************************)
None == [tag |-> "None", n |-> 0, z |-> 0]
False == [tag |-> "False", n |-> 0, z |-> 0]
True == [tag |-> "True", n |-> 0, z |-> 0]
Raise == [tag |-> "raise", n |-> 0, z |-> 0]
Dict(k) == [tag |-> "dict", n |-> k, z |-> 0]
JsonBytes(k) == [tag |-> "json", n |-> k, z |-> 0]
RawBytes(k) == [tag |-> "raw", n |-> k, z |-> 0]
Bz2(b) == [b EXCEPT !.z = @ + 1]

\* The JSON documents: 0 is `null`, a negative number is `false`, k > 0 is
\* {"foo": k}.
Document(k) == IF k = 0 THEN None ELSE IF k < 0 THEN False ELSE Dict(k)

\* json.loads(payload.decode("utf8")): raises on anything but JSON text
json_loads(b) == IF b.tag = "json" /\ b.z = 0 THEN Document(b.n) ELSE Raise

\* bz2.decompress(payload): raises on anything but a bz2 stream
bz2_decompress(b) ==
    IF b.tag \in {"json", "raw"} /\ b.z > 0 THEN [b EXCEPT !.z = @ - 1] ELSE Raise

(***************************************************************************)
(* Strings are sequences of one-character strings.                         *)
(***************************************************************************)
NL == "\n"
Strings(alphabet, maxlen) == UNION {[1..k -> alphabet] : k \in 0..maxlen}

endswith(s, suffix) ==
    /\ Len(s) >= Len(suffix)
    /\ SubSeq(s, Len(s) - Len(suffix) + 1, Len(s)) = suffix

DOT_BZ2 == <<".", "b", "z", "2">>
DOT_JSON == <<".", "j", "s", "o", "n">>

\* The characters of the classes in the two regular expressions, over the
\* characters the model draws ("a" stands for [a-zA-Z0-9]).
BucketClass == {"a", "-"}
PathClass == {"a", ".", "-", "_", "/", "x", "j", "s", "o", "n", "b", "z", "2", "i"}

\* `$` without re.MULTILINE matches at the end of the string and just before
\* a newline that is the string's last character.
AtDollar(s, consumed) ==
    \/ consumed = Len(s)
    \/ consumed = Len(s) - 1 /\ s[Len(s)] = NL

\* BUCKET_RE.match(s) is not None, BUCKET_RE = ^[a-zA-Z0-9\-]*$
BUCKET_RE_match(s) ==
    \E k \in 0..Len(s) :
        /\ \A i \in 1..k : s[i] \in BucketClass
        /\ AtDollar(s, k)

\* PATH_RE.match(s) is not None, PATH_RE = [^/][a-zA-Z0-9\.\-_/]*[^/]$
\* (match() anchors at the start; [^/] is any character but "/").
PATH_RE_match(s) ==
    \E k \in 2..Len(s) :
        /\ s[1] # "/"
        /\ \A i \in 2..(k - 1) : s[i] \in PathClass
        /\ s[k] # "/"
        /\ AtDollar(s, k)

(***************************************************************************)
(* os.path.normpath (posixpath), which __init__ applies to the path        *)
(***************************************************************************)
RECURSIVE split(_)
split(s) ==
    IF \A i \in 1..Len(s) : s[i] # "/"
    THEN <<s>>
    ELSE LET i == CHOOSE j \in 1..Len(s) :
                      s[j] = "/" /\ \A h \in 1..(j - 1) : s[h] # "/"
         IN  <<SubSeq(s, 1, i - 1)>> \o split(SubSeq(s, i + 1, Len(s)))

RECURSIVE join(_)
join(comps) ==
    IF comps = <<>> THEN <<>>
    ELSE IF Len(comps) = 1 THEN comps[1]
    ELSE comps[1] \o <<"/">> \o join(Tail(comps))

RECURSIVE norm_comps(_, _, _)
norm_comps(comps, new_comps, initial_slashes) ==
    IF comps = <<>> THEN new_comps
    ELSE LET comp == Head(comps)
             rest == Tail(comps)
         IN  IF comp = <<>> \/ comp = <<".">>
             THEN norm_comps(rest, new_comps, initial_slashes)
             ELSE IF \/ comp # <<".", ".">>
                     \/ (initial_slashes = 0 /\ new_comps = <<>>)
                     \/ (new_comps # <<>> /\ new_comps[Len(new_comps)] = <<".", ".">>)
             THEN norm_comps(rest, Append(new_comps, comp), initial_slashes)
             ELSE IF new_comps # <<>>
             THEN norm_comps(rest, SubSeq(new_comps, 1, Len(new_comps) - 1),
                             initial_slashes)
             ELSE norm_comps(rest, new_comps, initial_slashes)

normpath(path) ==
    IF path = <<>> THEN <<".">>
    ELSE LET starts(k) == Len(path) >= k /\ \A i \in 1..k : path[i] = "/"
             initial_slashes == IF ~starts(1) THEN 0
                                ELSE IF starts(2) /\ ~starts(3) THEN 2 ELSE 1
             joined == join(norm_comps(split(path), <<>>, initial_slashes))
             out == [i \in 1..initial_slashes |-> "/"] \o joined
         IN  IF out = <<>> THEN <<".">> ELSE out

(***************************************************************************)
(* decode_payload(payload, path); Raise when bz2 or json raises            *)
(***************************************************************************)
\* (mutant of decode_payload) the ".json" test is made on the path as
\* given, ".bz2" included
decode_payload_NoStrip(payload, path) ==
    LET bz == endswith(path, DOT_BZ2)
        payload1 == IF bz THEN bz2_decompress(payload) ELSE payload
    IN  IF payload1 = Raise THEN Raise
        ELSE IF endswith(path, DOT_JSON) THEN json_loads(payload1)
        ELSE payload1

decode_payload(payload, path) ==
    LET bz == endswith(path, DOT_BZ2)
        payload1 == IF bz THEN bz2_decompress(payload) ELSE payload
        path1 == IF bz THEN SubSeq(path, 1, Len(path) - 4) ELSE path
    IN  IF payload1 = Raise THEN Raise
        ELSE IF endswith(path1, DOT_JSON) THEN json_loads(payload1)
        ELSE payload1


(***************************************************************************)
(* State                                                                   *)
(***************************************************************************)
VARIABLES
    \* constructor arguments (path_arg is the argument `path`)
    cloud_type, bucket, path_arg, ttl, transformer, block_arg,
    \* self._path, os.path.normpath of the argument
    path,
    \* the caller: "init", "failed" (an assert raised), "constructing" (the
    \* constructor is inside block_until_cached), "ready" (the constructor has
    \* returned), "blocking" (a caller is inside a later block_until_cached)
    main_pc,
    \* the value the caller's last get() returned ("nocall" before any)
    ret,
    \* self._cached_result, self._stop, the two queue.Queue(10)
    cached_result, stop_flag, refresh_queue, result_queue,
    \* refresh_thread and its Timer
    refresh_pc, timer_start, ttl_incr,
    \* result_thread and its local `result`
    result_pc, result,
    \* _dequeue_result thread
    dequeue_pc,
    \* the injected clock, and the object in the bucket
    now, store_present, store_doc,
    \* the fetch calls made: flips at every call of load_model
    fetch_toggle,
    \* history of the pipeline: the refresh signals the worker has dequeued,
    \* the results it has put on the result queue, the writes of the slot,
    \* and the argument of the last call of the transformer (NoCall: none)
    signals_dequeued, results_enqueued, slot_writes, transform_arg

config == <<cloud_type, bucket, path_arg, ttl, transformer, block_arg>>
threads == <<refresh_pc, timer_start, ttl_incr, result_pc, result, dequeue_pc>>
queues == <<refresh_queue, result_queue>>
backend == <<store_present, store_doc>>
history == <<signals_dequeued, results_enqueued, slot_writes, transform_arg>>
vars == <<config, path, main_pc, ret, cached_result, stop_flag, queues,
          threads, now, backend, fetch_toggle, history>>

NoCall == [tag |-> "nocall", n |-> 0, z |-> 0]

\* CLOUD_TYPES
CLOUD_TYPES == {"s3", "gcs"}

\* A transformer is None or a function; "double" doubles the field foo.
NoTransformer == "None"
apply_transformer(t, v) ==
    IF t = "double" /\ v.tag = "dict" THEN Dict(2 * v.n) ELSE v

(***************************************************************************)
(* The loaders.  The bytes in the bucket are the JSON text of document     *)
(* store_doc, the number of the latest document written (0: none yet).     *)
(***************************************************************************)
StoredBytes == JsonBytes(store_doc)

\* botocore accepts as region_name None (the configured default) or a region
\* string; anything else makes the creation of the client raise.
ValidRegionName(region_name) == region_name \in {"None", "us-west-2"}

\* (mutant of s3_json_loader) a load that fails yields an empty object
\* instead of None
s3_json_loader_ErrorValue(b, p, region_name) ==
    IF ~ValidRegionName(region_name) THEN Dict(0)
    ELSE IF ~store_present THEN Dict(0)
    ELSE LET payload == decode_payload(StoredBytes, p)
         IN  IF payload = Raise THEN Dict(0) ELSE payload

\* s3_json_loader: every exception inside the try block is logged and the
\* function returns None.
s3_json_loader(b, p, region_name) ==
    IF ~ValidRegionName(region_name) THEN None
    ELSE IF ~store_present THEN None
    ELSE LET payload == decode_payload(StoredBytes, p)
         IN  IF payload = Raise THEN None ELSE payload

\* gcs_json_loader(bucket, path) called with the arguments `args`: a call
\* with a third positional argument raises TypeError before the try block.
gcs_json_loader(args) ==
    IF Len(args) # 2 THEN Raise
    ELSE IF ~store_present THEN None
    ELSE LET payload == decode_payload(StoredBytes, args[2])
         IN  IF payload = Raise THEN None ELSE payload

\* ThreadedObjectCache.load_model
load_model ==
    IF cloud_type = "s3"
    THEN s3_json_loader(bucket, path, transformer)
    ELSE gcs_json_loader(<<bucket, path, transformer>>)

\* nonblock_dequeue(q): the head of the queue, False when it is empty
nonblock_dequeue(q) == IF q = <<>> THEN False ELSE Head(q)

\* (mutant of has_expired_at) the threshold itself counts as expired
has_expired_at_Inclusive(clock_time) ==
    clock_time >= timer_start + (ttl_incr * ttl)

\* Timer.has_expired, the comparison, for the clock reading clock_time
has_expired_at(clock_time) == clock_time > timer_start + (ttl_incr * ttl)

\* Timer.has_expired at the current clock value
has_expired == has_expired_at(now)

(***************************************************************************)
(* __init__                                                                *)
(***************************************************************************)
\* the three asserts
asserts_pass(ct, b, p) ==
    /\ ct \in CLOUD_TYPES
    /\ BUCKET_RE_match(b)
    /\ PATH_RE_match(p)

Construct ==
    /\ main_pc = "init"
    /\ path' = normpath(path_arg)
    /\ IF asserts_pass(cloud_type, bucket, normpath(path_arg))
       THEN /\ refresh_pc' = "start"
            /\ result_pc' = "loop"
            /\ dequeue_pc' = "loop"
            /\ main_pc' = IF block_arg THEN "constructing" ELSE "ready"
       ELSE /\ main_pc' = "failed"
            /\ UNCHANGED <<refresh_pc, result_pc, dequeue_pc>>
    /\ UNCHANGED <<config, ret, cached_result, stop_flag, queues, timer_start,
                   ttl_incr, result, now, backend, fetch_toggle,
                   history>>

\* (mutant of BlockUntilCachedReturn) the wait returns after its first
\* sleep, whatever the slot holds
BlockUntilCachedReturn_NoWait ==
    /\ main_pc \in {"constructing", "blocking"}
    /\ main_pc' = "ready"
    /\ UNCHANGED <<config, path, ret, cached_result, stop_flag, queues, threads, now,
                   backend, fetch_toggle,
                   history>>

\* block_until_cached: the loop leaves when the slot is not None (it sleeps
\* otherwise, which changes nothing)
BlockUntilCachedReturn ==
    /\ main_pc \in {"constructing", "blocking"}
    /\ cached_result # None
    /\ main_pc' = "ready"
    /\ UNCHANGED <<config, path, ret, cached_result, stop_flag, queues, threads, now,
                   backend, fetch_toggle,
                   history>>

\* a later call of block_until_cached()
BlockUntilCachedCall ==
    /\ main_pc = "ready"
    /\ main_pc' = "blocking"
    /\ UNCHANGED <<config, path, ret, cached_result, stop_flag, queues, threads, now,
                   backend, fetch_toggle,
                   history>>

\* (mutant of Get) a read-through get(): with an empty slot it takes the next
\* result off the result queue itself, waiting for one
Get_ReadThrough ==
    /\ main_pc \in {"ready", "blocking"}
    /\ IF cached_result # None
       THEN /\ ret' = cached_result
            /\ UNCHANGED result_queue
       ELSE /\ result_queue # <<>>
            /\ ret' = Head(result_queue)
            /\ result_queue' = Tail(result_queue)
    /\ UNCHANGED <<config, path, main_pc, cached_result, stop_flag, refresh_queue,
                   threads, now, backend, fetch_toggle,
                   history>>

\* get(), by any thread that holds the constructed object
Get ==
    /\ main_pc \in {"ready", "blocking"}
    /\ ret' = cached_result
    /\ UNCHANGED <<config, path, main_pc, cached_result, stop_flag, queues, threads,
                   now, backend, fetch_toggle,
                   history>>

\* stop(), by any thread that holds the constructed object
Stop ==
    /\ main_pc \in {"ready", "blocking"}
    /\ stop_flag' = TRUE
    /\ UNCHANGED <<config, path, main_pc, ret, cached_result, queues, threads, now,
                   backend, fetch_toggle,
                   history>>

(***************************************************************************)
(* refresh_thread                                                          *)
(***************************************************************************)
\* t = Timer(clock, ttl)
RefreshStart ==
    /\ refresh_pc = "start"
    /\ timer_start' = now
    /\ ttl_incr' = 0
    /\ refresh_pc' = "loop"
    /\ UNCHANGED <<config, path, main_pc, ret, cached_result, stop_flag, queues,
                   result_pc, result, dequeue_pc, now, backend, fetch_toggle,
                   history>>

\* one pass of the loop up to the put: the stop check and t.has_expired()
RefreshPoll ==
    /\ refresh_pc = "loop"
    /\ IF stop_flag
       THEN /\ refresh_pc' = "done"
            /\ UNCHANGED ttl_incr
       ELSE IF has_expired /\ ttl_incr < MaxIncr
       THEN /\ ttl_incr' = ttl_incr + 1
            /\ refresh_pc' = "put"
       ELSE UNCHANGED <<refresh_pc, ttl_incr>>
    /\ UNCHANGED <<config, path, main_pc, ret, cached_result, stop_flag, queues,
                   timer_start, result_pc, result, dequeue_pc, now, backend,
                   fetch_toggle,
                   history>>

\* (mutant of RefreshPut) the refresh queue has no capacity: put never waits
RefreshPut_Unbounded ==
    /\ refresh_pc = "put"
    /\ refresh_queue' = Append(refresh_queue, True)
    /\ refresh_pc' = "loop"
    /\ UNCHANGED <<config, path, main_pc, ret, cached_result, stop_flag, result_queue,
                   timer_start, ttl_incr, result_pc, result, dequeue_pc, now,
                   backend, fetch_toggle,
                   history>>

\* refresh_queue.put(True): blocks while the queue is full; then sleep(1)
RefreshPut ==
    /\ refresh_pc = "put"
    /\ Len(refresh_queue) < QueueSize
    /\ refresh_queue' = Append(refresh_queue, True)
    /\ refresh_pc' = "loop"
    /\ UNCHANGED <<config, path, main_pc, ret, cached_result, stop_flag, result_queue,
                   timer_start, ttl_incr, result_pc, result, dequeue_pc, now,
                   backend, fetch_toggle,
                   history>>

(***************************************************************************)
(* result_thread                                                           *)
(***************************************************************************)
\* (mutant of ResultPoll) the worker does not test what the dequeue gave:
\* it goes on to load also when the refresh queue was empty
ResultPoll_LoadAlways ==
    /\ result_pc = "loop"
    /\ IF stop_flag
       THEN /\ result_pc' = "done"
            /\ UNCHANGED <<refresh_queue, result, signals_dequeued>>
       ELSE /\ IF nonblock_dequeue(refresh_queue) = False
               THEN UNCHANGED <<refresh_queue, signals_dequeued>>
               ELSE /\ refresh_queue' = Tail(refresh_queue)
                    /\ signals_dequeued' = signals_dequeued + 1
            /\ result' = None
            /\ result_pc' = "load"
    /\ UNCHANGED <<config, path, main_pc, ret, cached_result, stop_flag, result_queue,
                   refresh_pc, timer_start, ttl_incr, dequeue_pc, now, backend,
                   fetch_toggle,
                   results_enqueued, slot_writes, transform_arg>>

\* the stop check and nonblock_dequeue(refresh_queue)
ResultPoll ==
    /\ result_pc = "loop"
    /\ IF stop_flag
       THEN /\ result_pc' = "done"
            /\ UNCHANGED <<refresh_queue, result, signals_dequeued>>
       ELSE IF nonblock_dequeue(refresh_queue) = False
       THEN UNCHANGED <<result_pc, refresh_queue, result, signals_dequeued>>
       ELSE /\ refresh_queue' = Tail(refresh_queue)
            /\ signals_dequeued' = signals_dequeued + 1
            /\ result' = None
            /\ result_pc' = "load"
    /\ UNCHANGED <<config, path, main_pc, ret, cached_result, stop_flag, result_queue,
                   refresh_pc, timer_start, ttl_incr, dequeue_pc, now, backend,
                   fetch_toggle,
                   results_enqueued, slot_writes, transform_arg>>

\* (mutant of ResultLoad) the worker also stores what it loaded into the
\* slot itself
ResultLoad_WriteThrough ==
    /\ result_pc = "load"
    /\ LET loaded == load_model
       IN  IF loaded = Raise
           THEN /\ result_pc' = "crashed"
                /\ UNCHANGED <<result, cached_result, transform_arg>>
           ELSE IF loaded = None
           THEN UNCHANGED <<result_pc, result, cached_result, transform_arg>>
           ELSE /\ IF transformer # NoTransformer
                   THEN /\ result' = apply_transformer(transformer, loaded)
                        /\ transform_arg' = loaded
                   ELSE /\ result' = loaded
                        /\ UNCHANGED transform_arg
                /\ cached_result' = result'
                /\ result_pc' = "put"
    /\ UNCHANGED <<config, path, main_pc, ret, stop_flag, queues,
                   refresh_pc, timer_start, ttl_incr, dequeue_pc, now, backend,
                   signals_dequeued, results_enqueued, slot_writes>>
    /\ fetch_toggle' = ~fetch_toggle

\* one pass of the retry loop, result = model_loader(), and on success the
\* transformer; an exception escaping load_model ends the thread
ResultLoad ==
    /\ result_pc = "load"
    /\ LET loaded == load_model
       IN  IF loaded = Raise
           THEN /\ result_pc' = "crashed"
                /\ UNCHANGED <<result, transform_arg>>
           ELSE IF loaded = None
           THEN UNCHANGED <<result_pc, result, transform_arg>>
           ELSE /\ IF transformer # NoTransformer
                   THEN /\ result' = apply_transformer(transformer, loaded)
                        /\ transform_arg' = loaded
                   ELSE /\ result' = loaded
                        /\ UNCHANGED transform_arg
                /\ result_pc' = "put"
    /\ UNCHANGED <<config, path, main_pc, ret, cached_result, stop_flag, queues,
                   refresh_pc, timer_start, ttl_incr, dequeue_pc, now, backend,
                   signals_dequeued, results_enqueued, slot_writes>>
    /\ fetch_toggle' = ~fetch_toggle

\* (mutant of ResultPut) the result queue is a stack: put places the
\* result where the next get finds it
ResultPut_Lifo ==
    /\ result_pc = "put"
    /\ Len(result_queue) < QueueSize
    /\ result_queue' = <<result>> \o result_queue
    /\ result_pc' = "loop"
    /\ UNCHANGED <<config, path, main_pc, ret, cached_result, stop_flag, refresh_queue,
                   refresh_pc, timer_start, ttl_incr, result, dequeue_pc, now,
                   backend, fetch_toggle,
                   signals_dequeued, slot_writes, transform_arg>>
    /\ results_enqueued' = results_enqueued + 1

\* result_queue.put(result): blocks while the queue is full
ResultPut ==
    /\ result_pc = "put"
    /\ Len(result_queue) < QueueSize
    /\ result_queue' = Append(result_queue, result)
    /\ result_pc' = "loop"
    /\ UNCHANGED <<config, path, main_pc, ret, cached_result, stop_flag, refresh_queue,
                   refresh_pc, timer_start, ttl_incr, result, dequeue_pc, now,
                   backend, fetch_toggle,
                   signals_dequeued, slot_writes, transform_arg>>
    /\ results_enqueued' = results_enqueued + 1

(***************************************************************************)
(* _dequeue_result                                                         *)
(***************************************************************************)
\* (mutant of DequeueResult) the slot is written with whatever the dequeue
\* gave, None when the queue was empty
DequeueResult_ClobberOnEmpty ==
    /\ dequeue_pc = "loop"
    /\ IF stop_flag
       THEN /\ dequeue_pc' = "done"
            /\ UNCHANGED <<result_queue, cached_result, slot_writes>>
       ELSE LET r == nonblock_dequeue(result_queue)
            IN  /\ result_queue' = IF result_queue = <<>> THEN result_queue
                                   ELSE Tail(result_queue)
                /\ cached_result' = IF r = False THEN None ELSE r
                /\ slot_writes' = IF r = False THEN slot_writes
                                  ELSE slot_writes + 1
                /\ UNCHANGED dequeue_pc
    /\ UNCHANGED <<config, path, main_pc, ret, stop_flag, refresh_queue, refresh_pc,
                   timer_start, ttl_incr, result_pc, result, now, backend,
                   fetch_toggle,
                   signals_dequeued, results_enqueued, transform_arg>>

\* one pass of the loop: the stop check, the dequeue, the two tests and the
\* write of the slot
DequeueResult ==
    /\ dequeue_pc = "loop"
    /\ IF stop_flag
       THEN /\ dequeue_pc' = "done"
            /\ UNCHANGED <<result_queue, cached_result, slot_writes>>
       ELSE LET r == nonblock_dequeue(result_queue)
            IN  /\ result_queue' = IF result_queue = <<>> THEN result_queue
                                   ELSE Tail(result_queue)
                /\ cached_result' = IF r = False \/ r = None THEN cached_result
                                    ELSE r
                /\ slot_writes' = IF r = False \/ r = None THEN slot_writes
                                  ELSE slot_writes + 1
                /\ UNCHANGED dequeue_pc
    /\ UNCHANGED <<config, path, main_pc, ret, stop_flag, refresh_queue, refresh_pc,
                   timer_start, ttl_incr, result_pc, result, now, backend,
                   fetch_toggle,
                   signals_dequeued, results_enqueued, transform_arg>>

(***************************************************************************)
(* The environment: the clock and the bucket                               *)
(***************************************************************************)
\* The clock is read by the Timer alone, at its creation and at every poll,
\* and only the difference of the two readings is used: the clock is modelled
\* from the Timer's creation on.
Tick ==
    /\ refresh_pc \notin {"new", "start"}
    /\ now < MaxNow
    /\ now' = now + 1
    /\ UNCHANGED <<config, path, main_pc, ret, cached_result, stop_flag, queues,
                   threads, backend, fetch_toggle,
                   history>>

\* the object is written: the latest document again (after a delete), or the
\* next one
BackendPut ==
    /\ \E d \in {store_doc, store_doc + 1} \cap (1..MaxVersion) :
          /\ ~(store_present /\ d = store_doc)
          /\ store_doc' = d
    /\ store_present' = TRUE
    /\ UNCHANGED <<config, path, main_pc, ret, cached_result, stop_flag, queues,
                   threads, now, fetch_toggle,
                   history>>

BackendDelete ==
    /\ store_present
    /\ store_present' = FALSE
    /\ UNCHANGED <<config, path, main_pc, ret, cached_result, stop_flag, queues,
                   threads, now, store_doc, fetch_toggle,
                   history>>

Next ==
    \/ Construct
    \/ BlockUntilCachedReturn
    \/ BlockUntilCachedCall
    \/ Get
    \/ Stop
    \/ RefreshStart
    \/ RefreshPoll
    \/ RefreshPut
    \/ ResultPoll
    \/ ResultLoad
    \/ ResultPut
    \/ DequeueResult
    \/ Tick
    \/ BackendPut
    \/ BackendDelete

(***************************************************************************)
(* Initial states                                                          *)
(***************************************************************************)
\* the state of a ThreadedObjectCache before __init__ runs, for the
\* constructor arguments `args`
InitWith(ct, b, p, t, tr, blk) ==
    /\ cloud_type = ct /\ bucket = b /\ path_arg = p
    /\ path = <<>>
    /\ ttl = t /\ transformer = tr /\ block_arg = blk
    /\ main_pc = "init"
    /\ ret = NoCall
    /\ cached_result = None
    /\ stop_flag = FALSE
    /\ refresh_queue = <<>>
    /\ result_queue = <<>>
    /\ refresh_pc = "new" /\ timer_start = 0 /\ ttl_incr = 0
    /\ result_pc = "new" /\ result = None
    /\ dequeue_pc = "new"
    /\ now = 0
    /\ fetch_toggle = FALSE
    /\ signals_dequeued = 0 /\ results_enqueued = 0 /\ slot_writes = 0
    /\ transform_arg = NoCall

TEST_BUCKET == <<"a", "-", "a">>
TEST_PATH == <<"a", "/", "x", ".", "j", "s", "o", "n">>

Init ==
    /\ \E ct \in {"s3", "gcs", "ftp"}, t \in {1, 2},
          tr \in {NoTransformer, "double"}, blk \in BOOLEAN :
          InitWith(ct, TEST_BUCKET, TEST_PATH, t, tr, blk)
    /\ \E present \in BOOLEAN :
          /\ store_present = present
          /\ store_doc = IF present THEN 1 ELSE 0

Spec == Init /\ [][Next]_vars

\* The cache under its fastest schedule (ttl = 0: the timer expires at every
\* poll once the clock has moved), where the producer outruns the worker and
\* the worker the publisher, so that both queues fill up.
InitFull ==
    /\ InitWith("s3", TEST_BUCKET, TEST_PATH, 0, NoTransformer, FALSE)
    /\ store_present = TRUE
    /\ store_doc = MaxVersion

SpecFull == InitFull /\ [][Next]_vars

\* Scheduling: every started thread keeps being scheduled, the caller's
\* constructor runs on, and the clock advances.  The caller's later calls
\* and the bucket's owner are under no obligation.
Fairness ==
    /\ WF_vars(Construct)
    /\ WF_vars(BlockUntilCachedReturn)
    /\ WF_vars(RefreshStart)
    /\ WF_vars(RefreshPoll)
    /\ WF_vars(RefreshPut)
    /\ WF_vars(ResultPoll)
    /\ WF_vars(ResultLoad)
    /\ WF_vars(ResultPut)
    /\ WF_vars(DequeueResult)
    /\ WF_vars(Tick)

FairSpec == Spec /\ Fairness

FairSpecFull == SpecFull /\ Fairness

(***************************************************************************)
(* The cache over a bucket whose object is the JSON document `false` (or   *)
(* the first document) and is not written again.                           *)
(***************************************************************************)
InitFalsy ==
    /\ \E t \in {1, 2} :
          InitWith("s3", TEST_BUCKET, TEST_PATH, t, NoTransformer, FALSE)
    /\ store_present = TRUE
    /\ store_doc \in {-1, 1}

NextFalsy ==
    \/ Construct
    \/ BlockUntilCachedReturn
    \/ BlockUntilCachedCall
    \/ Get
    \/ Stop
    \/ RefreshStart
    \/ RefreshPoll
    \/ RefreshPut
    \/ ResultPoll
    \/ ResultLoad
    \/ ResultPut
    \/ DequeueResult
    \/ Tick
    \/ BackendDelete

SpecFalsy == InitFalsy /\ [][NextFalsy]_vars

(***************************************************************************)
(* The constructor alone, over every bucket and path string up to MaxLen   *)
(***************************************************************************)
BucketAlphabet == {"a", "-", "_", NL}
PathAlphabet == {"a", ".", "_", "/", "!", NL}
VALID_BUCKET == <<"a">>
VALID_PATH == <<"a", "a">>

InitCtor ==
    /\ \E ct \in {"s3", "gcs", "ftp"} :
          \/ \E b \in Strings(BucketAlphabet, MaxLen) :
                InitWith(ct, b, VALID_PATH, 2, NoTransformer, FALSE)
          \/ \E p \in Strings(PathAlphabet, MaxLen) :
                InitWith(ct, VALID_BUCKET, p, 2, NoTransformer, FALSE)
    /\ store_present = TRUE
    /\ store_doc = 1

NextCtor ==
    \/ Construct
    \/ Get
    \/ Stop

SpecCtor == InitCtor /\ [][NextCtor]_vars

(***************************************************************************)
(* jsoncache/__init__.py: the ThreadedObjectCache the package exports (the *)
(* class the tests import).  Its threads have no stop flag, its worker     *)
(* makes one attempt per refresh signal, its loaders always parse JSON,    *)
(* and its publisher asserts that the result is not None.                  *)
(***************************************************************************)
\* s3_json_loader of __init__.py
pkg_s3_json_loader(b, p, region_name) ==
    IF ~ValidRegionName(region_name) THEN None
    ELSE IF ~store_present THEN None
    ELSE LET payload == IF endswith(p, DOT_BZ2) THEN bz2_decompress(StoredBytes)
                        ELSE StoredBytes
             json_obj == IF payload = Raise THEN Raise ELSE json_loads(payload)
         IN  IF json_obj = Raise THEN None ELSE json_obj

\* gcs_json_loader of __init__.py, called with the arguments `args`
pkg_gcs_json_loader(args) ==
    IF Len(args) # 2 THEN Raise
    ELSE IF ~store_present THEN None
    ELSE LET payload == IF endswith(args[2], DOT_BZ2)
                        THEN bz2_decompress(StoredBytes)
                        ELSE StoredBytes
             json_obj == IF payload = Raise THEN Raise ELSE json_loads(payload)
         IN  IF json_obj = Raise THEN None ELSE json_obj

\* ThreadedObjectCache.load_model of __init__.py
pkg_load_model ==
    IF cloud_type = "s3"
    THEN pkg_s3_json_loader(bucket, path, transformer)
    ELSE pkg_gcs_json_loader(<<bucket, path, transformer>>)

\* refresh_thread of __init__.py: one pass of the loop up to the put
PkgRefreshPoll ==
    /\ refresh_pc = "loop"
    /\ has_expired /\ ttl_incr < MaxIncr
    /\ ttl_incr' = ttl_incr + 1
    /\ refresh_pc' = "put"
    /\ UNCHANGED <<config, path, main_pc, ret, cached_result, stop_flag, queues,
                   timer_start, result_pc, result, dequeue_pc, now, backend,
                   fetch_toggle,
                   history>>

\* result_thread of __init__.py: nonblock_dequeue(refresh_queue)
PkgResultPoll ==
    /\ result_pc = "loop"
    /\ nonblock_dequeue(refresh_queue) # False
    /\ refresh_queue' = Tail(refresh_queue)
    /\ result_pc' = "load"
    /\ UNCHANGED <<config, path, main_pc, ret, cached_result, stop_flag, result_queue,
                   refresh_pc, timer_start, ttl_incr, result, dequeue_pc, now,
                   backend, fetch_toggle,
                   results_enqueued, slot_writes, transform_arg>>
    /\ signals_dequeued' = signals_dequeued + 1

\* result_thread of __init__.py: result = model_loader(), once, then the
\* transformer when there is one
PkgResultLoad ==
    /\ result_pc = "load"
    /\ LET loaded == pkg_load_model
       IN  IF loaded = Raise
           THEN /\ result_pc' = "crashed"
                /\ UNCHANGED <<result, transform_arg>>
           ELSE /\ IF transformer # NoTransformer
                   THEN /\ result' = apply_transformer(transformer, loaded)
                        /\ transform_arg' = loaded
                   ELSE /\ result' = loaded
                        /\ UNCHANGED transform_arg
                /\ result_pc' = "put"
    /\ UNCHANGED <<config, path, main_pc, ret, cached_result, stop_flag, queues,
                   refresh_pc, timer_start, ttl_incr, dequeue_pc, now, backend,
                   signals_dequeued, results_enqueued, slot_writes>>
    /\ fetch_toggle' = ~fetch_toggle

\* _dequeue_result of __init__.py: one pass that finds a result; the assert
\* raises on None and ends the thread
PkgDequeueResult ==
    /\ dequeue_pc = "loop"
    /\ nonblock_dequeue(result_queue) # False
    /\ result_queue' = Tail(result_queue)
    /\ IF Head(result_queue) = None
       THEN /\ dequeue_pc' = "crashed"
            /\ UNCHANGED <<cached_result, slot_writes>>
       ELSE /\ cached_result' = Head(result_queue)
            /\ slot_writes' = slot_writes + 1
            /\ UNCHANGED dequeue_pc
    /\ UNCHANGED <<config, path, main_pc, ret, stop_flag, refresh_queue, refresh_pc,
                   timer_start, ttl_incr, result_pc, result, now, backend,
                   fetch_toggle,
                   signals_dequeued, results_enqueued, transform_arg>>

\* the state when __init__ of __init__.py has started the three threads
InitPackage ==
    /\ \E t \in {1, 2} : ttl = t
    /\ cloud_type = "s3" /\ bucket = TEST_BUCKET /\ path_arg = TEST_PATH
    /\ path = normpath(TEST_PATH)
    /\ transformer = NoTransformer /\ block_arg = FALSE
    /\ main_pc = "ready"
    /\ ret = NoCall
    /\ cached_result = None
    /\ stop_flag = FALSE
    /\ refresh_queue = <<>>
    /\ result_queue = <<>>
    /\ refresh_pc = "start" /\ timer_start = 0 /\ ttl_incr = 0
    /\ result_pc = "loop" /\ result = None
    /\ dequeue_pc = "loop"
    /\ now = 0
    /\ fetch_toggle = FALSE
    /\ signals_dequeued = 0 /\ results_enqueued = 0 /\ slot_writes = 0
    /\ transform_arg = NoCall
    /\ \E present \in BOOLEAN :
          /\ store_present = present
          /\ store_doc = IF present THEN 1 ELSE 0

NextPackage ==
    \/ Get
    \/ BlockUntilCachedCall
    \/ BlockUntilCachedReturn
    \/ RefreshStart
    \/ PkgRefreshPoll
    \/ RefreshPut
    \/ PkgResultPoll
    \/ PkgResultLoad
    \/ ResultPut
    \/ PkgDequeueResult
    \/ Tick
    \/ BackendPut
    \/ BackendDelete

SpecPackage == InitPackage /\ [][NextPackage]_vars

FairSpecPackage ==
    /\ SpecPackage
    /\ WF_vars(BlockUntilCachedReturn)
    /\ WF_vars(RefreshStart)
    /\ WF_vars(PkgRefreshPoll)
    /\ WF_vars(RefreshPut)
    /\ WF_vars(PkgResultPoll)
    /\ WF_vars(PkgResultLoad)
    /\ WF_vars(ResultPut)
    /\ WF_vars(PkgDequeueResult)
    /\ WF_vars(Tick)

(***************************************************************************)
(* A Timer on its own: created at clock value t0 and polled, by a caller   *)
(* that holds the clock, at any non-decreasing sequence of clock values.   *)
(* ret is what the last has_expired() returned.                            *)
(***************************************************************************)
\* (mutant of HasExpired) the tick counter is not advanced on expiry
HasExpired_NoAdvance ==
    /\ main_pc = "timer"
    /\ ttl_incr < MaxIncr
    /\ \E clock_time \in now..MaxClock :
          /\ now' = clock_time
          /\ LET expired == has_expired_at(clock_time)
             IN  /\ ttl_incr' = ttl_incr
                 /\ ret' = IF expired THEN True ELSE False
    /\ UNCHANGED <<config, path, main_pc, cached_result, stop_flag, queues,
                   refresh_pc, timer_start, result_pc, result, dequeue_pc,
                   backend, fetch_toggle,
                   history>>

\* one call of t.has_expired(); clock_time is what self._clock.time() reads
HasExpired ==
    /\ main_pc = "timer"
    /\ ttl_incr < MaxIncr
    /\ \E clock_time \in now..MaxClock :
          /\ now' = clock_time
          /\ LET expired == has_expired_at(clock_time)
             IN  /\ ttl_incr' = IF expired THEN ttl_incr + 1 ELSE ttl_incr
                 /\ ret' = IF expired THEN True ELSE False
    /\ UNCHANGED <<config, path, main_pc, cached_result, stop_flag, queues,
                   refresh_pc, timer_start, result_pc, result, dequeue_pc,
                   backend, fetch_toggle,
                   history>>

\* no ThreadedObjectCache exists: the state of a test of one function
NoCache ==
    /\ cloud_type = "s3" /\ bucket = TEST_BUCKET /\ path_arg = TEST_PATH
    /\ transformer = NoTransformer /\ block_arg = FALSE
    /\ cached_result = None
    /\ stop_flag = FALSE
    /\ refresh_queue = <<>>
    /\ result_queue = <<>>
    /\ refresh_pc = "new"
    /\ result_pc = "new"
    /\ dequeue_pc = "new"
    /\ fetch_toggle = FALSE
    /\ signals_dequeued = 0 /\ results_enqueued = 0 /\ slot_writes = 0
    /\ transform_arg = NoCall
    /\ store_present = FALSE
    /\ store_doc = 0

\* Timer(clock, ttl) just created at the clock value t0
InitTimer ==
    /\ \E start \in 0..2, t \in 1..3 :
          /\ ttl = t
          /\ now = start
          /\ timer_start = start
    /\ ttl_incr = 0
    /\ main_pc = "timer"
    /\ ret = NoCall
    /\ path = <<>>
    /\ result = None
    /\ NoCache

NextTimer == HasExpired

SpecTimer == InitTimer /\ [][NextTimer]_vars

(***************************************************************************)
(* decode_payload on its own: result holds the argument `payload`, path    *)
(* the argument `path`, and ret what the call returned (Raise: it raised). *)
(***************************************************************************)
DecodePayload ==
    /\ main_pc = "decode"
    /\ ret' = decode_payload(result, path)
    /\ main_pc' = "decoded"
    /\ UNCHANGED <<config, path, cached_result, stop_flag, queues, threads,
                   now, backend, fetch_toggle,
                   history>>

\* the payloads: JSON text or other bytes, under 0..MaxLayers bz2 layers
MaxLayers == 2
RECURSIVE Compressed(_, _)
Compressed(b, layers) == IF layers = 0 THEN b ELSE Bz2(Compressed(b, layers - 1))
Payloads ==
    {Compressed(b, layers) :
        b \in {JsonBytes(k) : k \in (-1)..MaxVersion}
                \cup {RawBytes(k) : k \in 1..MaxVersion},
        layers \in 0..MaxLayers}

\* the paths: every stacking of up to MaxLen suffixes on the name "x"
DOT_BIN == <<".", "b", "i", "n">>
RECURSIVE Concat(_)
Concat(seqs) == IF seqs = <<>> THEN <<>> ELSE Head(seqs) \o Concat(Tail(seqs))
DecodePaths ==
    {<<"x">> \o Concat(suffixes) :
        suffixes \in Strings({DOT_BZ2, DOT_JSON, DOT_BIN}, MaxLen)}
        \cup {DOT_JSON, DOT_BZ2, Tail(DOT_JSON), Tail(DOT_BZ2)}

InitDecode ==
    /\ \E payload \in Payloads, p \in DecodePaths :
          /\ result = payload
          /\ path = p
    /\ main_pc = "decode"
    /\ ret = NoCall
    /\ ttl = 1 /\ now = 0 /\ timer_start = 0 /\ ttl_incr = 0
    /\ NoCache

NextDecode == DecodePayload

SpecDecode == InitDecode /\ [][NextDecode]_vars

(***************************************************************************)
(* Properties                                                              *)
(***************************************************************************)
\* the results of successful loads that have not reached the slot yet
InFlight ==
    {result_queue[i] : i \in DOMAIN result_queue}
        \cup (IF result_pc = "put" THEN {result} ELSE {})

\* the decoded documents the bucket has held so far
StoredDocuments == {Document(d) : d \in 1..store_doc}

\* the asserts have passed and the threads are started
Started == main_pc \in {"constructing", "ready", "blocking"}

\* the constructor has returned
Constructed == main_pc \in {"ready", "blocking"}

\* a thread that has left its loop
Exited == {"done", "crashed"}

\* C1 as stated: once the slot holds a value, it keeps exactly that value
\* over every step taken while the object is missing from the bucket (every
\* fetch fails).
C1_SlotFrozenWhileFetchesFail ==
    [][(cached_result # None /\ ~store_present /\ ~store_present')
          => cached_result' = cached_result]_vars

\* C1 (amended): while the object is missing, a failed fetch puts nothing
\* into the pipeline and the slot is never emptied: get() returns the value
\* the slot held or one that an earlier, successful load had left in flight.
C1_FailedRefreshKeepsLastGood ==
    [][(cached_result # None /\ ~store_present)
          => /\ cached_result' \in ({cached_result} \cup InFlight)
             /\ cached_result' # None
             /\ (store_present' \/ InFlight' \subseteq InFlight)]_vars

\* C1 witness: the slot holds a value get() has returned, the object is
\* gone, nothing is in flight and the worker is retrying a failing load.
C1_Witness ==
    /\ cached_result # None
    /\ ret = cached_result
    /\ ~store_present
    /\ result_pc = "load"
    /\ InFlight = {}

\* C2: once the slot is not None, no step makes it None again.
C2_SlotNeverResetToNone ==
    [][cached_result # None => cached_result' # None]_vars

\* C2 witness: the slot held the first document (a get() returned it) and
\* now holds the second.
C2_Witness ==
    /\ ret = Dict(1)
    /\ cached_result = Dict(2)

\* C3: get() is always possible once the constructor has returned, it
\* returns the slot's content (None before any expiry of the timer, never an
\* exception) and changes nothing else.
C3_GetIsImmediatePureRead ==
    /\ [](Constructed => ENABLED Get)
    /\ [](ttl_incr = 0 => cached_result = None)
    /\ [][(Get \/ ret' # ret)
            => /\ ret' = cached_result
               /\ ret' # Raise
               /\ UNCHANGED <<config, path, main_pc, cached_result,
                              stop_flag, queues, threads, now, backend,
                              fetch_toggle,
                   history>>]_vars

\* C3 witness: a get() returned None before the first result was published.
C3_Witness ==
    /\ ret = None
    /\ cached_result # None

\* C4: with block_until_cached = True the constructor has returned only if
\* the slot holds a decoded document of the bucket, and every return of
\* block_until_cached() happens in such a state.
C4_BlockReturnsWithValue ==
    /\ []((block_arg /\ Constructed) => cached_result \in StoredDocuments)
    /\ [][(main_pc \in {"constructing", "blocking"} /\ main_pc' = "ready")
            => cached_result' \in StoredDocuments]_vars

\* C4 witness: the blocking constructor has returned and the first get()
\* returned the stored document; no refresh has happened since.
C4_Witness ==
    /\ block_arg
    /\ main_pc = "ready"
    /\ ttl_incr = 1
    /\ ret = Document(store_doc)
    /\ ret = cached_result

\* C5 as stated: the non-blocking constructor returns with the slot holding
\* the decoded stored object.
C5_GetRightAfterConstruct ==
    [][(main_pc = "init" /\ main_pc' = "ready" /\ ~block_arg /\ store_present)
          => cached_result' = Document(store_doc)]_vars

\* C6 as stated: after stop() the worker is eventually never again about to
\* call the loader.
C6_NoFetchAfterStop ==
    [](stop_flag => <>[](result_pc # "load"))

\* C7 as stated: after stop() all three threads eventually have left their
\* loops.
C7_AllThreadsExitAfterStop ==
    stop_flag ~> (/\ refresh_pc \in Exited
                  /\ result_pc \in Exited
                  /\ dequeue_pc \in Exited)

\* C8 as stated: with a transformer, the slot only ever holds transformed
\* documents, and it becomes non-None when the cache runs on (no stop())
\* against a bucket that keeps holding the object.
C8_TransformedValuePublished ==
    /\ []((transformer # NoTransformer /\ cached_result # None)
            => cached_result \in
                 {apply_transformer(transformer, v) : v \in StoredDocuments})
    /\ (transformer # NoTransformer /\ Started)
          ~> (cached_result # None \/ stop_flag \/ ~store_present)

\* the allow-lists of the documentation
DocValidBucket(b) == \A i \in 1..Len(b) : b[i] \in BucketClass
DocValidPath(p) ==
    /\ p # <<>>
    /\ \A i \in 1..Len(p) : p[i] \in PathClass
    /\ p[1] # "/"
    /\ p[Len(p)] # "/"

\* C9 as stated: construction fails, with no thread started, exactly when
\* the backend type, the bucket or the (normalized) path is invalid, and
\* otherwise starts the three threads.
C9_ConstructionValidates ==
    main_pc # "init" =>
        IF /\ cloud_type \in CLOUD_TYPES
           /\ DocValidBucket(bucket)
           /\ DocValidPath(normpath(path_arg))
        THEN /\ main_pc # "failed"
             /\ refresh_pc # "new" /\ result_pc # "new" /\ dequeue_pc # "new"
        ELSE /\ main_pc = "failed"
             /\ refresh_pc = "new" /\ result_pc = "new" /\ dequeue_pc = "new"
             /\ refresh_queue = <<>>
             /\ ~ENABLED (RefreshStart \/ ResultPoll \/ ResultLoad)

\* C10 as stated: PATH_RE matches exactly the paths of the documented rule,
\* and no path given with a leading or trailing slash is constructed.
C10_PathRule ==
    main_pc # "init" =>
        /\ PATH_RE_match(path_arg) <=> DocValidPath(path_arg)
        /\ (path_arg # <<>>
              /\ (path_arg[1] = "/" \/ path_arg[Len(path_arg)] = "/"))
              => main_pc = "failed"

\* t0 and T of the Timer
t0 == timer_start
TTL == ttl

\* C11 as stated: a query before T has elapsed since t0 returns false, the
\* first query at or after t0 + T returns true, and the queries after that
\* one return false until t0 + 2T.
C11_FirstExpiryAtTTL ==
    [][HasExpired =>
          /\ (now' < t0 + TTL => ret' = False)
          /\ (ttl_incr = 0 /\ now' >= t0 + TTL => ret' = True)
          /\ (ttl_incr = 1 /\ now' < t0 + (2 * TTL) => ret' = False)]_vars

\* C11 (amended): the thresholds are t0, t0 + T, ... and are exclusive: a
\* query at or before t0 returns false, the first query after t0 returns
\* true, then every query up to and including t0 + T returns false and the
\* first query after t0 + T returns true.
C11_FirstExpiryAtStart ==
    [][(now' # now \/ ret' # ret \/ ttl_incr' # ttl_incr) =>
          /\ ret' \in {True, False}
          /\ (now' <= t0 => ret' = False)
          /\ (ttl_incr = 0 /\ now' > t0 => ret' = True)
          /\ (ttl_incr = 1 /\ now' <= t0 + TTL => ret' = False)
          /\ (ttl_incr = 1 /\ now' > t0 + TTL => ret' = True)]_vars

\* C11 witness: with T = 2 the Timer has returned true once after t0, false
\* at t0 + T, and now true for the second time right after t0 + T.
C11_Witness ==
    /\ main_pc = "timer"
    /\ TTL = 2
    /\ ttl_incr = 2
    /\ now = t0 + TTL + 1
    /\ ret = True

\* the file names of the claim's four equations
X_JSON == <<"x">> \o DOT_JSON
X_JSON_BZ2 == <<"x">> \o DOT_JSON \o DOT_BZ2
X_BIN == <<"x">> \o DOT_BIN
X_BIN_BZ2 == <<"x">> \o DOT_BIN \o DOT_BZ2

\* C12: decode_payload dispatches on the suffix of the path alone: with
\* ".bz2" one layer is decompressed and the suffix dropped; if the rest ends
\* in ".json" the bytes are parsed, otherwise they are returned as they are.
\* The four equations of the claim are its instances.
C12_DecodeBySuffix ==
    main_pc = "decoded" =>
        LET compressed == endswith(path, DOT_BZ2)
            logical == IF compressed THEN SubSeq(path, 1, Len(path) - 4)
                       ELSE path
            is_json == endswith(logical, DOT_JSON)
            is_bz2 == result.z > 0
            is_text == result.tag = "json" /\ result.z = IF compressed THEN 1 ELSE 0
        IN  /\ (~compressed /\ ~is_json) => ret = result
            /\ (compressed /\ ~is_json /\ is_bz2)
                  => (Bz2(ret) = result /\ ret # result)
            /\ (is_json /\ is_text) => ret = Document(result.n)
            /\ (path = X_JSON_BZ2 /\ \E k \in 1..MaxVersion :
                                        result = Bz2(JsonBytes(k)))
                  => ret = Dict(result.n)
            /\ (path = X_JSON /\ \E k \in 1..MaxVersion : result = JsonBytes(k))
                  => ret = Dict(result.n)
            /\ (path = X_BIN_BZ2 /\ \E k \in 1..MaxVersion :
                                       result = Bz2(RawBytes(k)))
                  => ret = RawBytes(result.n)
            /\ (path = X_BIN /\ result.z = 0) => ret = result

\* C12 witness: a once-compressed JSON text under "x.json.bz2" has been
\* decoded to its document.
C12_Witness ==
    /\ main_pc = "decoded"
    /\ path = X_JSON_BZ2
    /\ result = Bz2(JsonBytes(MaxVersion))
    /\ ret = Dict(MaxVersion)

\* C13 as stated: every step that takes a result off the result queue
\* leaves the slot unchanged when the result is None, and otherwise writes
\* exactly that result to the slot.
C13_PublishesEveryNonNull ==
    [][(result_queue # <<>> /\ result_queue' = Tail(result_queue))
          => cached_result' = IF Head(result_queue) = None THEN cached_result
                              ELSE Head(result_queue)]_vars

\* C14 as stated: the producer is never held up by the refresh queue: when
\* it has seen the timer expire it can complete its enqueue attempt and go
\* on to its next poll, also when the queue already holds QueueSize signals.
C14_ProducerNeverBlocks ==
    refresh_pc = "put" => ENABLED RefreshPut

\* C15 as stated: an attempt of the worker (a call of load_model) never
\* ends the worker and puts nothing on the result queue; an attempt made
\* while the object is missing leaves the worker retrying; an attempt that
\* ends the retry loop hands on the (transformed) stored document, which
\* the worker then enqueues, once, before it polls again.
C15_RetryUntilSuccess ==
    /\ [][fetch_toggle' # fetch_toggle
            => /\ result_pc' \notin Exited
               /\ result_queue' = result_queue
               /\ (~store_present => (result_pc' = "load" /\ result' = result))
               /\ (result_pc' = "put"
                     => /\ store_present
                        /\ result' = IF transformer = NoTransformer
                                      THEN Document(store_doc)
                                      ELSE apply_transformer(
                                               transformer, Document(store_doc)))
          ]_vars
    /\ [][(result_pc = "put" /\ result_pc' # "put")
            => /\ result_queue' = Append(result_queue, result)
               /\ result_pc' = "loop"]_vars

\* what the worker hands on for the stored object: the decoded document,
\* transformed when the cache has a transformer
ExpectedResult ==
    IF transformer = NoTransformer THEN Document(store_doc)
    ELSE apply_transformer(transformer, Document(store_doc))

\* C16 as stated: on either backend an attempt of the worker made while the
\* bucket holds the object gets the decoded document from the loader, and
\* the value is then put on the result queue and published to the slot
\* (unless stop() is called or the object is deleted meanwhile).
C16_BothBackendsLoad ==
    /\ [][(fetch_toggle' # fetch_toggle /\ store_present)
            => (result_pc' = "put" /\ result' = ExpectedResult)]_vars
    /\ (cloud_type \in CLOUD_TYPES /\ result_pc = "load" /\ store_present)
          ~> (cached_result # None \/ stop_flag \/ ~store_present)

\* the version of the stored object a value was decoded from (0: no value)
Version(v) == IF v.tag = "dict" THEN v.n ELSE 0

\* C17: the result queue changes only by the worker appending its result at
\* the tail and by the publisher taking the head; the slot is written only
\* with the head taken; hence values reach the slot in the order they were
\* loaded: the queue is ordered by the version loaded, nothing in it is
\* older than the slot, and the slot never goes back to an older version.
C17_FifoToSlot ==
    /\ [][result_queue' # result_queue
            => \/ result_queue' = Append(result_queue, result)
               \/ /\ result_queue # <<>>
                  /\ result_queue' = Tail(result_queue)
                  /\ cached_result' \in {Head(result_queue), cached_result}]_vars
    /\ [][cached_result' # cached_result
            => /\ result_queue # <<>>
               /\ cached_result' = Head(result_queue)
               /\ result_queue' = Tail(result_queue)
               /\ Version(cached_result') >= Version(cached_result)]_vars
    /\ [](\A i, j \in DOMAIN result_queue :
             i < j => Version(result_queue[i]) <= Version(result_queue[j]))
    /\ [](\A i \in DOMAIN result_queue :
             Version(cached_result) <= Version(result_queue[i]))

\* C17 witness: two loads of different versions were enqueued; the older
\* is in the slot (and a get() has returned it), the newer still queued.
C17_Witness ==
    /\ cached_result = Dict(1)
    /\ ret = Dict(1)
    /\ result_queue = <<Dict(2)>>

\* C18: the publisher is the slot's only writer: no step of the producer,
\* of the worker, of get(), of block_until_cached() or of stop() changes
\* the slot, and a step that changes it is a pass of the running publisher
\* that takes a result off the result queue.
C18_SingleWriter ==
    /\ [][(\/ RefreshStart \/ RefreshPoll \/ RefreshPut
            \/ ResultPoll \/ ResultLoad \/ ResultPut
            \/ Get \/ BlockUntilCachedCall \/ BlockUntilCachedReturn \/ Stop)
            => cached_result' = cached_result]_vars
    /\ [][cached_result' # cached_result
            => /\ dequeue_pc = "loop" /\ dequeue_pc' = "loop"
               /\ ~stop_flag
               /\ result_queue # <<>> /\ result_queue' = Tail(result_queue)
               /\ UNCHANGED <<refresh_pc, timer_start, ttl_incr, result_pc,
                              result, refresh_queue, main_pc, ret, stop_flag>>
          ]_vars

\* C18 witness: the slot was written, a get() has read it, stop() was
\* called and the producer and the worker have run to their ends.
C18_Witness ==
    /\ cached_result = Dict(1)
    /\ ret = Dict(1)
    /\ stop_flag
    /\ refresh_pc = "done"
    /\ result_pc = "done"

\* C19: neither queue ever holds more than QueueSize entries.
C19_QueuesBounded ==
    /\ Len(refresh_queue) <= QueueSize
    /\ Len(result_queue) <= QueueSize

\* C19 witness: the worker has run QueueSize results ahead of the
\* publisher and holds one more, and the producer has signalled again.
C19_Witness ==
    /\ Len(result_queue) = QueueSize
    /\ result_pc = "put"
    /\ ttl_incr > QueueSize

\* the thresholds t0 + i*TTL the clock has passed
ThresholdsPassed == {i \in 0..MaxClock : t0 + (i * TTL) < now}

\* C20: the schedule stays anchored at t0 and the tick counter counts the
\* true returns: it grows by exactly 1 on a true return and is unchanged on
\* a false one; the true return number i (from 0) is made at a clock value
\* greater than t0 + i*TTL; so the true returns never outnumber the
\* thresholds already passed.
C20_TicksOncePerThreshold ==
    /\ [][/\ timer_start' = timer_start
          /\ ttl_incr' >= ttl_incr
          /\ \/ ret' = True /\ ttl_incr' = ttl_incr + 1
                              /\ now' > t0 + (ttl_incr * TTL)
             \/ ret' = False /\ ttl_incr' = ttl_incr]_vars
    /\ [](ttl_incr <= Cardinality(ThresholdsPassed))

\* C20 witness: with TTL = 1 the clock stands at t0 + 3: the Timer has
\* returned true for the thresholds t0, t0 + 1 and t0 + 2 and then false.
C20_Witness ==
    /\ main_pc = "timer"
    /\ TTL = 1
    /\ now = t0 + 3
    /\ ttl_incr = 3
    /\ ret = False

\* C21 as stated: in the cache of the package top level a load that fails
\* ends none of the three threads and never empties the slot, and a document
\* that is then loaded while the bucket keeps holding it reaches the slot.
C21_PackageCacheSurvivesFailure ==
    /\ [](/\ refresh_pc \notin Exited
          /\ result_pc \notin Exited
          /\ dequeue_pc \notin Exited)
    /\ [][cached_result # None => cached_result' # None]_vars
    /\ \A d \in 1..MaxVersion :
          (result_pc = "put" /\ result = Dict(d))
              ~> (cached_result = Dict(d) \/ store_doc > d)

\* C22 as stated: a thread that has left its loop has seen the stop flag:
\* whenever the producer, the worker or the publisher has terminated,
\* stop() has been called.
C22_ExitOnlyOnStop ==
    (\/ refresh_pc \in Exited
     \/ result_pc \in Exited
     \/ dequeue_pc \in Exited) => stop_flag

\* C23: the pipeline never invents work: the slot has been written at most
\* as often as the worker has enqueued a result, the worker has enqueued at
\* most as many results as it has dequeued refresh signals, and it has
\* dequeued at most as many signals as has_expired has returned true; and
\* the transformer has only been called with a document a load returned,
\* never with the None of a failed load.
C23_NoInventedWork ==
    /\ slot_writes <= results_enqueued
    /\ results_enqueued <= signals_dequeued
    /\ signals_dequeued <= ttl_incr
    /\ transform_arg \in ({NoCall} \cup StoredDocuments)
    /\ transform_arg \notin {None, Raise}

\* C23 witness: the timer has expired three times, the worker has taken
\* all three signals and enqueued two results, and the publisher has
\* written one of them to the slot.
C23_Witness ==
    /\ ttl_incr = 3
    /\ signals_dequeued = 3
    /\ results_enqueued = 2
    /\ slot_writes = 1
    /\ cached_result # None

=============================================================================
